---- MODULE Spec2Model ----
(***************************************************************************)
(* bix (src/main.rs): one invocation of the command-line tool.             *)
(*                                                                         *)
(*   bix view FILE [-o OFF] [-n N] [-w W] [--no-group] [--no-addr]         *)
(*                 [--no-ascii] [--raw]                                    *)
(*   bix set  FILE BYTES... [-o OFF]                                       *)
(*                                                                         *)
(* Init is the state right after Args::parse(): the parsed command line    *)
(* and the file on disk.  View is the whole `ArgCommand::View` arm; the    *)
(* `ArgCommand::Set` arm is SetOpen followed by the write() calls that     *)
(* write_all makes, any of which the operating system may fail.            *)
(*                                                                         *)
(* Characters are their code points (`*byte as char`), standard output is  *)
(* the sequence of lines printed, each line kept as the segments the       *)
(* print! calls of one loop iteration produce.                             *)
(*                                                                         *)
(* `hex_width - printed_hex` is a usize subtraction.  When it underflows a *)
(* build with overflow checks panics there; a build without them wraps the *)
(* pad width to 2^64 - d, a width print! cannot honour, so the row is      *)
(* never completed either.  overflow_checks chooses the build.             *)
(***************************************************************************)
EXTENDS Integers, Sequences, FiniteSets, TLC

VARIABLES cmd, file, file0, offset, number, width, no_group, no_addr,
          no_ascii, raw, bytes, overflow_checks, pc, buf, rows, pos,
          written, wrote

vars == <<cmd, file, file0, offset, number, width, no_group, no_addr,
          no_ascii, raw, bytes, overflow_checks, pc, buf, rows, pos,
          written, wrote>>

\* ---------------------------------------------------------------- bounds
MaxLen == 20
MaxWidth == 16
MaxByteLen == 2

\* ---------------------------------------------------------- characters
SP == 32
DOT == 46
BAR == 124
COLON == 58

Min(a, b) == IF a < b THEN a ELSE b

\* one uppercase hexadecimal digit, as `{:X}` prints it
HexDigit(d) == IF d < 10 THEN 48 + d ELSE 55 + d

RECURSIVE HexDigits(_)
HexDigits(n) ==
    IF n < 16 THEN <<HexDigit(n)>>
    ELSE HexDigits(n \div 16) \o <<HexDigit(n % 16)>>

RECURSIVE ZeroPad(_, _)
ZeroPad(s, w) == IF Len(s) >= w THEN s ELSE ZeroPad(<<48>> \o s, w)

\* format!("{:0w$X}", n)
FmtHex(n, w) == ZeroPad(HexDigits(n), w)

\* u8::is_ascii_graphic, u8::is_ascii_control
IsAsciiGraphic(b) == b >= 33 /\ b <= 126
IsAsciiControl(b) == b <= 31 \/ b = 127

AsciiChar_NoSpace(b) ==
    IF IsAsciiGraphic(b) /\ ~IsAsciiControl(b) THEN b ELSE DOT

\* the `ch` of the ASCII column
AsciiChar(b) ==
    IF (IsAsciiGraphic(b) \/ b = SP) /\ ~IsAsciiControl(b) THEN b ELSE DOT

\* [T]::chunks(width), width > 0
RECURSIVE Chunks(_, _)
Chunks(s, w) ==
    IF s = <<>> THEN <<>>
    ELSE LET n == Min(w, Len(s))
         IN  <<SubSeq(s, 1, n)>> \o Chunks(SubSeq(s, n + 1, Len(s)), w)

\* the inner loop over chunk.iter().enumerate(), from index j on
RECURSIVE HexCells_OffByOne(_, _, _, _)
HexCells_OffByOne(chunk, j, mid, group) ==
    IF j >= Len(chunk) THEN <<>>
    ELSE FmtHex(chunk[j + 1], 2) \o <<SP>>
         \o (IF group /\ j = mid THEN <<SP>> ELSE <<>>)
         \o HexCells_OffByOne(chunk, j + 1, mid, group)

RECURSIVE HexCells(_, _, _, _)
HexCells(chunk, j, mid, group) ==
    IF j >= Len(chunk) THEN <<>>
    ELSE FmtHex(chunk[j + 1], 2) \o <<SP>>
         \o (IF group /\ j + 1 = mid THEN <<SP>> ELSE <<>>)
         \o HexCells(chunk, j + 1, mid, group)

\* the `|...|` section of one row
RECURSIVE AsciiCells(_)
AsciiCells(chunk) ==
    IF chunk = <<>> THEN <<>>
    ELSE <<AsciiChar(Head(chunk))>> \o AsciiCells(Tail(chunk))

HexWidth(w, na) == IF ~na THEN w * 3 + 1 ELSE w * 3
PrintedHex(n) == n * 3 + (IF n > 8 THEN 1 ELSE 0)

\* One iteration of `for (i, chunk) in buf.chunks(width).enumerate()`.
\* st = "ok": the line was printed and ended; "panic" / "wrapped": the
\* subtraction underflowed with / without overflow checks.
RenderRow(i, chunk, off, w, ng, na, nas, oc) ==
    LET addr == off + i * w
        a    == IF ~na THEN FmtHex(addr, 8) \o <<COLON, SP>> ELSE <<>>
        h    == HexCells(chunk, 0, w \div 2, ~ng)
        hw   == HexWidth(w, na)
        ph   == PrintedHex(Len(chunk))
    IN  IF nas
        THEN [addr |-> a, hex |-> h, hex_width |-> 0, printed_hex |-> 0,
              pad |-> 0, ascii |-> <<>>, st |-> "ok"]
        ELSE IF hw >= ph
        THEN [addr |-> a, hex |-> h, hex_width |-> hw, printed_hex |-> ph,
              pad |-> hw - ph,
              ascii |-> <<BAR>> \o AsciiCells(chunk) \o <<BAR>>, st |-> "ok"]
        ELSE [addr |-> a, hex |-> h, hex_width |-> hw, printed_hex |-> ph,
              pad |-> 0, ascii |-> <<>>,
              st |-> IF oc THEN "panic" ELSE "wrapped"]

\* the outer loop, from chunk i on; stops at the row that did not complete
RECURSIVE RenderRows(_, _, _, _, _, _, _, _)
RenderRows(cs, i, off, w, ng, na, nas, oc) ==
    IF i >= Len(cs) THEN [rows |-> <<>>, pc |-> "done"]
    ELSE LET r == RenderRow(i, cs[i + 1], off, w, ng, na, nas, oc)
         IN  IF r.st # "ok" THEN [rows |-> <<r>>, pc |-> r.st]
             ELSE LET rest == RenderRows(cs, i + 1, off, w, ng, na, nas, oc)
                  IN  [rows |-> <<r>> \o rest.rows, pc |-> rest.pc]

\* the `if raw { ... }` block: one line of "XX " cells
RawRow(b) ==
    [addr |-> <<>>, hex |-> HexCells(b, 0, 0, FALSE), hex_width |-> 0,
     printed_hex |-> 0, pad |-> 0, ascii |-> <<>>, st |-> "ok"]

Structured(b, off, w, ng, na, nas, oc) ==
    IF w = 0
    THEN [rows |-> <<>>, pc |-> "panic"]       \* chunks(0) panics
    ELSE RenderRows(Chunks(b, w), 0, off, w, ng, na, nas, oc)

\* the raw block without its `return Ok(())`
Render_RawFallsThrough(b, off, w, ng, na, nas, r, oc) ==
    LET s == Structured(b, off, w, ng, na, nas, oc)
    IN  IF r THEN [rows |-> <<RawRow(b)>> \o s.rows, pc |-> s.pc] ELSE s

\* everything View prints for the window b (lines 90-132)
Render(b, off, w, ng, na, nas, r, oc) ==
    IF r THEN [rows |-> <<RawRow(b)>>, pc |-> "done"]
    ELSE Structured(b, off, w, ng, na, nas, oc)

\* ------------------------------------------------------------ the file
\* File::seek + read_exact / read_to_end: what is left from offset on
Avail(f, off) == IF off >= Len(f) THEN <<>> ELSE SubSeq(f, off + 1, Len(f))

WriteAt_Truncating(f, p, data) ==
    [k \in 1..(p + Len(data)) |->
        IF k > p THEN data[k - p] ELSE IF k <= Len(f) THEN f[k] ELSE 0]

\* one write() of data at position p of a file opened with write(true)
\* only: bytes in place are overwritten, a gap past the end reads as zero
WriteAt(f, p, data) ==
    LET n == IF p + Len(data) > Len(f) THEN p + Len(data) ELSE Len(f)
    IN  [k \in 1..n |->
            IF k > p /\ k <= p + Len(data) THEN data[k - p]
            ELSE IF k <= Len(f) THEN f[k] ELSE 0]

\* ---------------------------------------------------------------- inputs
Pattern(seed, n) == [k \in 1..n |-> (seed + k - 1) % 256]

Seeds == {0, 28, 65, 122, 248}
Files == {Pattern(s, n) : s \in Seeds, n \in 0..MaxLen}
ByteFiles == {Pattern(s, n) : s \in 0..255, n \in 1..MaxByteLen}
Payloads == {<<170>>, <<170, 221>>, <<170, 221, 204, 186>>}
None == <<>>
Some(n) == <<n>>

InitView(FS, WS) ==
    /\ cmd = "view"
    /\ file \in FS
    /\ offset \in {0, 3}
    /\ number \in {None, Some(5)}
    /\ width \in WS
    /\ no_group \in BOOLEAN
    /\ no_addr \in BOOLEAN
    /\ no_ascii \in BOOLEAN
    /\ raw \in BOOLEAN
    /\ overflow_checks \in BOOLEAN
    /\ bytes = <<>>

InitSet(FS) ==
    /\ cmd = "set"
    /\ file \in FS
    /\ offset \in 0..(MaxLen + 1)
    /\ bytes \in Payloads
    /\ number = None
    /\ width = 16
    /\ no_group = FALSE
    /\ no_addr = FALSE
    /\ no_ascii = FALSE
    /\ raw = FALSE
    /\ overflow_checks = TRUE

Fresh ==
    /\ file0 = file
    /\ pc = "start"
    /\ buf = <<>>
    /\ rows = <<>>
    /\ pos = 0
    /\ written = 0
    /\ wrote = None

Init == (InitView(Files, 0..MaxWidth) \/ InitSet(Files)) /\ Fresh

InitBytes ==
    (InitView(ByteFiles, 1..MaxByteLen) \/ InitSet(ByteFiles)) /\ Fresh

\* --------------------------------------------------------------- actions
\* ArgCommand::View
View ==
    /\ pc = "start"
    /\ cmd = "view"
    /\ LET avail == Avail(file, offset)
       IN  IF number # None /\ number[1] > Len(avail)
           THEN /\ pc' = "error"                  \* read_exact: short read
                /\ UNCHANGED <<buf, rows>>
           ELSE LET b == IF number = None THEN avail
                         ELSE SubSeq(avail, 1, number[1])
                    r == Render(b, offset, width, no_group, no_addr,
                                no_ascii, raw, overflow_checks)
                IN  /\ buf' = b
                    /\ rows' = r.rows
                    /\ pc' = r.pc
    /\ UNCHANGED <<cmd, file, file0, offset, number, width, no_group,
                   no_addr, no_ascii, raw, bytes, overflow_checks, pos,
                   written, wrote>>

\* ArgCommand::Set: open and seek
SetOpen ==
    /\ pc = "start"
    /\ cmd = "set"
    /\ pos' = offset
    /\ pc' = "writing"
    /\ UNCHANGED <<cmd, file, file0, offset, number, width, no_group,
                   no_addr, no_ascii, raw, bytes, overflow_checks, buf,
                   rows, written, wrote>>

\* write_all: one write() that accepts n bytes; after the last one Set
\* prints "Wrote {} bytes at 0x{:X}" with bytes.len() and offset
Write(n) ==
    /\ pc = "writing"
    /\ n >= 1
    /\ written + n <= Len(bytes)
    /\ file' = WriteAt(file, pos, SubSeq(bytes, written + 1, written + n))
    /\ pos' = pos + n
    /\ written' = written + n
    /\ IF written + n = Len(bytes)
       THEN pc' = "done" /\ wrote' = <<Len(bytes), offset>>
       ELSE UNCHANGED <<pc, wrote>>
    /\ UNCHANGED <<cmd, file0, offset, number, width, no_group, no_addr,
                   no_ascii, raw, bytes, overflow_checks, buf, rows>>

\* write_all: a write() fails (or accepts nothing): `?` returns the error
WriteError ==
    /\ pc = "writing"
    /\ pc' = "error"
    /\ UNCHANGED <<cmd, file, file0, offset, number, width, no_group,
                   no_addr, no_ascii, raw, bytes, overflow_checks, buf,
                   rows, pos, written, wrote>>

Next ==
    \/ View
    \/ SetOpen
    \/ \E n \in 1..4 : Write(n)
    \/ WriteError

Spec == Init /\ [][Next]_vars

SpecBytes == InitBytes /\ [][Next]_vars

\* ------------------------------------------------- reading the output
HexVal(c) ==
    IF c >= 48 /\ c <= 57 THEN c - 48
    ELSE IF c >= 65 /\ c <= 70 THEN c - 55 ELSE -256

\* the bytes of the "XX " cells of a hex column, in output order
RECURSIVE ParseCells(_)
ParseCells(t) ==
    IF t = <<>> THEN <<>>
    ELSE IF t[1] = SP THEN ParseCells(Tail(t))
    ELSE IF Len(t) >= 3 /\ t[3] = SP
         THEN <<HexVal(t[1]) * 16 + HexVal(t[2])>>
              \o ParseCells(SubSeq(t, 4, Len(t)))
         ELSE <<-1>>

\* for every space of a hex column that is not the one closing a cell,
\* the number of cells printed before it
RECURSIVE GapsFrom(_, _)
GapsFrom(t, k) ==
    IF t = <<>> THEN <<>>
    ELSE IF t[1] = SP THEN <<k>> \o GapsFrom(Tail(t), k)
    ELSE GapsFrom(SubSeq(t, 4, Len(t)), k + 1)

Gaps(t) == GapsFrom(t, 0)

RECURSIVE AllCells(_)
AllCells(rs) ==
    IF rs = <<>> THEN <<>> ELSE ParseCells(Head(rs).hex) \o AllCells(Tail(rs))

\* the output column at which the `|` of a row starts
BarColumn(r) == Len(r.addr) + Len(r.hex) + r.pad

\* the chunk a row with 0-based index i has to show
ChunkLen(i) == Min(width, Len(buf) - i * width)
ChunkBytes(i) == SubSeq(buf, i * width + 1, i * width + ChunkLen(i))
NumRows == (Len(buf) + width - 1) \div width

Viewed == cmd = "view" /\ pc \in {"done", "panic", "wrapped"}
StructuredView == Viewed /\ ~raw /\ width >= 1
AsciiView == StructuredView /\ ~no_ascii

\* C1: for every window, width >= 1 and flag combination, the hex cells
\* printed across all rows, read in output order, are exactly the bytes of
\* the window.
C1_RoundTrip == (Viewed /\ width >= 1) => AllCells(rows) = buf

\* C2: with the ASCII column shown, the opening `|` of every row of one
\* render starts at the same output column, short final row included.
C2_Alignment ==
    AsciiView =>
        \A i, j \in 1..Len(rows) :
            (rows[i].ascii # <<>> /\ rows[j].ascii # <<>>)
                => BarColumn(rows[i]) = BarColumn(rows[j])

\* C3: a successful Set with offset + len(payload) within the file leaves
\* the payload at [offset, offset+len), every other byte and the length
\* unchanged, and reports len(payload) bytes written.
C3_PatchExact ==
    (cmd = "set" /\ pc = "done" /\ offset + Len(bytes) <= Len(file0)) =>
        /\ Len(file) = Len(file0)
        /\ \A k \in 1..Len(file0) :
              file[k] = IF k > offset /\ k <= offset + Len(bytes)
                        THEN bytes[k - offset] ELSE file0[k]
        /\ wrote # None
        /\ wrote[1] = Len(bytes)

C3_Witness ==
    /\ cmd = "set"
    /\ pc = "done"
    /\ offset >= 1
    /\ Len(bytes) = 4
    /\ offset + Len(bytes) < Len(file0)
    /\ file # file0

\* C4: with raw enabled the output is the same for all eight settings of
\* no-group, no-addr and no-ascii: one line of cells, without address,
\* ASCII section or grouping space.
C4_RawIndependent ==
    (Viewed /\ raw) =>
        /\ \A g, a, s \in BOOLEAN :
              Render(buf, offset, width, g, a, s, TRUE, overflow_checks)
                  = [rows |-> rows, pc |-> pc]
        /\ Len(rows) = 1
        /\ rows[1].addr = <<>>
        /\ rows[1].ascii = <<>>
        /\ rows[1].pad = 0
        /\ Gaps(rows[1].hex) = <<>>

C4_Witness ==
    /\ Viewed
    /\ raw
    /\ ~no_group /\ ~no_addr /\ ~no_ascii
    /\ width = 4
    /\ Len(buf) > 8

\* C5: in structured mode a row has exactly one additional space, right
\* after the cell with index floor(width/2) - 1, iff grouping is enabled,
\* floor(width/2) >= 1 and the row has at least floor(width/2) cells;
\* otherwise it has none.
C5_GroupBoundary ==
    StructuredView =>
        \A i \in 1..Len(rows) :
            Gaps(rows[i].hex) =
                IF /\ ~no_group
                   /\ width \div 2 >= 1
                   /\ Len(ParseCells(rows[i].hex)) >= width \div 2
                THEN <<width \div 2>> ELSE <<>>

C5_Witness ==
    /\ StructuredView
    /\ ~no_group
    /\ width = 16
    /\ Len(rows) = 2
    /\ Gaps(rows[1].hex) = <<8>>
    /\ Len(ParseCells(rows[2].hex)) \in 1..7
    /\ Gaps(rows[2].hex) = <<>>

\* C6: with the ASCII column shown, the hex cells of a row plus the padding
\* before its `|` take width*3 characters, plus one iff grouping is enabled
\* and width > 8, whatever the address flag and the length of the chunk.
C6_Footprint ==
    AsciiView =>
        \A i \in 1..Len(rows) :
            rows[i].ascii # <<>> =>
                Len(rows[i].hex) + rows[i].pad
                    = width * 3 + (IF ~no_group /\ width > 8 THEN 1 ELSE 0)

\* C7: in structured mode View ends normally with ceil(n / width) rows,
\* every row but the last of width bytes, and with no row for an empty
\* window.
C7_RowCount ==
    StructuredView =>
        /\ pc = "done"
        /\ Len(rows) = NumRows
        /\ \A i \in 1..Len(rows) :
              Len(ParseCells(rows[i].hex)) = ChunkLen(i - 1)

\* C8: the `|...|` section of a row has one character per byte of its
\* chunk, in order: the byte itself for 0x20..0x7E and `.` for every other
\* value.
C8_AsciiMapping ==
    AsciiView =>
        \A i \in 1..Len(rows) :
            rows[i].ascii # <<>> =>
                rows[i].ascii =
                    <<BAR>>
                    \o [k \in 1..ChunkLen(i - 1) |->
                          IF ChunkBytes(i - 1)[k] >= 32
                             /\ ChunkBytes(i - 1)[k] <= 126
                          THEN ChunkBytes(i - 1)[k] ELSE DOT]
                    \o <<BAR>>

C8_Witness ==
    /\ AsciiView
    /\ pc = "done"
    /\ buf = <<31, 32>>
    /\ width = 1
    /\ Len(rows) = 2
    /\ rows[1].ascii = <<BAR, DOT, BAR>>
    /\ rows[2].ascii = <<BAR, SP, BAR>>

\* C9: when the write fails after k bytes of the payload, 0 < k < len, Set
\* reports the count k together with the failure.
C9_PartialReport ==
    (cmd = "set" /\ pc = "error" /\ written > 0 /\ written < Len(bytes)) =>
        (wrote # None /\ wrote[1] = written)

\* C10: with the ASCII column shown, hex_width >= printed_hex for every
\* row, so the pad width hex_width - printed_hex never underflows.
C10_NoUnderflow ==
    AsciiView =>
        \A i \in 1..Len(rows) : rows[i].hex_width >= rows[i].printed_hex

====
